---- MODULE Spec2Model ----
(***************************************************************************)
(* SleepDriver: the drowsiness decision loop of sleep_detector.py main().  *)
(*                                                                         *)
(* One iteration of the `while True` loop is two steps: the per-frame      *)
(* update (pc = "grab" -> "key") and the keyboard handling                 *)
(* (pc = "key" -> "grab" or "stopped").                                    *)
(*                                                                         *)
(* EAR values are exact rationals in units of 0.01: the threshold 0.17 is  *)
(* 17, the margin 0.02 is 2.  The smoothed EAR sum(h)/len(h) is kept as    *)
(* the fraction [num, den] and compared by cross-multiplication, so the    *)
(* mean is neither truncated nor rounded.                                  *)
(***************************************************************************)
EXTENDS Integers, Sequences, FiniteSets, TLC

VARIABLES
    args_ear,       \* args.ear, the EAR threshold (units of 0.01)
    args_frames,    \* args.frames, consecutive frames needed for the alarm
    COUNTER,        \* COUNTER
    ALARM_ON,       \* ALARM_ON
    ear_history,    \* ear_history, the smoothing window
    smoothed_ear,   \* smoothed_ear of the last face-detected frame
    status_text,    \* status_text drawn for the last frame
    face,           \* bool(results.multi_face_landmarks) of the last frame
    ear,            \* ear, the combined EAR of the last face-detected frame
    args_silent,    \* args.silent
    args_log,       \* args.log
    alarm_plays,    \* play_alarm calls made by the latest step
    log_appended,   \* lines appended to config.LOG_FILE by the latest step
    call,           \* the latest call of an estimator: function, argument, result
    recov,          \* history: the run of frames being timed, if any
    transition,     \* alarm event of the latest step
    key,            \* the key read by the last cv2.waitKey
    pc,             \* position in the main loop
    armed           \* history: COUNTER was 0 and has not reached args_frames since

vars == <<args_ear, args_frames, COUNTER, ALARM_ON, ear_history, smoothed_ear,
          status_text, face, transition, key, pc, armed,
          ear, args_silent, args_log, alarm_plays, log_appended, call, recov>>

\* the command line, fixed for the whole run
argsVars == <<args_ear, args_frames, args_silent, args_log>>

----------------------------------------------------------------------------
(* Bounds of the model *)

\* largest args.frames explored
MaxFrames == 2

\* how far COUNTER may run past args.frames
MaxOver == 1

(* Program constants *)

\* capacity of ear_history
WindowSize == 5

\* the 0.02 hysteresis margin, in units of 0.01
Margin == 2

\* combined EAR samples fed to the loop (units of 0.01)
EarValues == {0, 17, 24, 40}

\* thresholds explored: the --ear default 0.17 and config's 0.22
Thresholds == {17, 22}

Unset == [num |-> 0, den |-> 0]

\* ear before the first face-detected frame
NoEar == -1

\* no estimator has been called
NoCall == [fn |-> "none", arg |-> <<>>, ret |-> Unset]

\* no open-eyes run is being timed
NoRecovery == [on |-> FALSE, c |-> 0, n |-> 0]

\* the line log_drowsiness_event writes, and the record logging.info adds to
\* the same file (initialize_logger sets it up on config.LOG_FILE)
EventLine == "<timestamp> - Drowsiness detected"
InfoLine == "<asctime> - INFO - Drowsiness event logged"

----------------------------------------------------------------------------
(* Pure helpers *)

RECURSIVE Sum(_)
Sum(s) == IF s = <<>> THEN 0 ELSE Head(s) + Sum(Tail(s))

Max0(n) == IF n > 0 THEN n ELSE 0

\* variant: the newest value is dropped instead of the oldest (pop() for pop(0))
PushEarDropNewest(h, e) ==
    LET a == Append(h, e)
    IN  IF Len(a) > WindowSize THEN SubSeq(a, 1, Len(a) - 1) ELSE a

\* ear_history.append(ear); if len(ear_history) > 5: ear_history.pop(0)
PushEar(h, e) ==
    LET a == Append(h, e)
    IN  IF Len(a) > WindowSize THEN Tail(a) ELSE a

\* smoothed_ear = sum(ear_history) / len(ear_history)
Smooth(h) == [num |-> Sum(h), den |-> Len(h)]

\* variant: the comparison admits equality (smoothed_ear <= args.ear)
BelowOrAtThreshold(s, t) == s.num <= t * s.den

\* smoothed_ear < args.ear
BelowThreshold(s, t) == s.num < t * s.den

\* smoothed_ear > (args.ear + 0.02)
AboveMargin(s, t) == s.num > (t + Margin) * s.den

\* COUNTER += 1
ClosedCounter(c) == c + 1

\* variant: the `if not ALARM_ON` guard is missing
TurnedOnFiresNoLatch(c1, alarm, n) == c1 >= n

\* if COUNTER >= args.frames: if not ALARM_ON: (alarm is triggered)
TurnedOnFires(c1, alarm, n) == c1 >= n /\ ~alarm

\* variant: off by one (COUNTER > args.frames)
ClosedAlarmStrict(c1, alarm, n) == IF c1 > n THEN TRUE ELSE alarm

\* ALARM_ON after the closed-eyes branch
ClosedAlarm(c1, alarm, n) == IF c1 >= n THEN TRUE ELSE alarm

\* COUNTER = max(0, COUNTER - 1) in the open-eyes branch
OpenCounter(c) == Max0(c - 1)

\* variant: the `if COUNTER == 0` guard is missing
OpenAlarmUnguarded(c1, alarm) == FALSE

\* if COUNTER == 0: ALARM_ON = False
OpenAlarm(c1, alarm) == IF c1 = 0 THEN FALSE ELSE alarm

\* variant: the floor is missing (COUNTER -= 1)
NoFaceCounterNoFloor(c) == c - 1

\* variant: the counter is cleared at once instead of decaying
NoFaceCounterClear(c) == 0

\* COUNTER = max(0, COUNTER - 1) when no face is detected
NoFaceCounter(c) == Max0(c - 1)

\* if not args.silent: play_alarm(...)
PlayCalls(fires, silent) == IF fires /\ ~silent THEN 1 ELSE 0

\* variant: the event is logged whether or not --log was given
LogLinesAlways(fires, log) == IF fires THEN <<EventLine, InfoLine>> ELSE <<>>

\* if args.log: log_drowsiness_event(config.LOG_FILE)
LogLines(fires, log) == IF fires /\ log THEN <<EventLine, InfoLine>> ELSE <<>>

\* status_text: "Status: Awake" unless the closed-eyes branch saw COUNTER >= args.frames
StatusText(below, c1, n) ==
    IF below /\ c1 >= n THEN "Status: DROWSY!" ELSE "Status: Awake"

\* the part of the state the 'r' key works on
DetState == [COUNTER |-> COUNTER, ALARM_ON |-> ALARM_ON, ear_history |-> ear_history]

\* variant: the counter decays by one instead of being cleared
ResetStateDecay(s) == [s EXCEPT !.COUNTER = Max0(s.COUNTER - 1), !.ear_history = <<>>]

\* COUNTER = 0; ear_history = []
ResetState(s) == [s EXCEPT !.COUNTER = 0, !.ear_history = <<>>]

\* history variable: armed at COUNTER = 0, disarmed once COUNTER >= args.frames
ArmedAfter(a, c1, n) == IF c1 >= n THEN FALSE ELSE IF c1 = 0 THEN TRUE ELSE a

----------------------------------------------------------------------------
\* the state main() builds before the loop, for one command line
InitWith(t, n, silent, log) ==
    /\ args_ear = t
    /\ args_frames = n
    /\ args_silent = silent
    /\ args_log = log
    /\ COUNTER = 0
    /\ ALARM_ON = FALSE
    /\ ear_history = <<>>
    /\ smoothed_ear = Unset
    /\ status_text = "Status: Awake"
    /\ face = FALSE
    /\ ear = NoEar
    /\ transition = "None"
    /\ alarm_plays = 0
    /\ log_appended = <<>>
    /\ key = "none"
    /\ pc = "grab"
    /\ armed = TRUE
    /\ call = NoCall
    /\ recov = NoRecovery

\* sound on and logging off are the defaults of --silent and --log
Init ==
    \E t \in Thresholds, n \in 1..MaxFrames : InitWith(t, n, FALSE, FALSE)

\* the update of a frame on which a face is found, with combined EAR e
FaceUpdate(e) ==
    /\ pc = "grab"
    /\ LET h == PushEar(ear_history, e)
           s == Smooth(h)
           below == BelowThreshold(s, args_ear)
           above == AboveMargin(s, args_ear)
           c1 == IF below THEN ClosedCounter(COUNTER)
                 ELSE IF above THEN OpenCounter(COUNTER)
                 ELSE COUNTER
           fires == below /\ TurnedOnFires(c1, ALARM_ON, args_frames)
       IN  /\ ear' = e
           /\ ear_history' = h
           /\ smoothed_ear' = s
           /\ COUNTER' = c1
           /\ ALARM_ON' = IF below THEN ClosedAlarm(c1, ALARM_ON, args_frames)
                          ELSE IF above THEN OpenAlarm(c1, ALARM_ON)
                          ELSE ALARM_ON
           /\ transition' = IF fires
                               THEN "TurnedOn"
                            ELSE IF ~below /\ above /\ ALARM_ON
                                    /\ ~OpenAlarm(c1, ALARM_ON)
                               THEN "TurnedOff"
                            ELSE "None"
           /\ alarm_plays' = PlayCalls(fires, args_silent)
           /\ log_appended' = LogLines(fires, args_log)
           /\ status_text' = StatusText(below, c1, args_frames)
           /\ armed' = ArmedAfter(armed, c1, args_frames)
    /\ face' = TRUE
    /\ pc' = "key"
    /\ UNCHANGED <<argsVars, key, call>>

\* the frame would take the closed-eyes branch
WouldClose(e) == BelowThreshold(Smooth(PushEar(ear_history, e)), args_ear)

\* a frame on which a face is found, with combined EAR e
FaceFrame(e) ==
    /\ WouldClose(e) => COUNTER < args_frames + MaxOver
    /\ FaceUpdate(e)
    /\ UNCHANGED recov

\* the update of a frame on which no face is found
NoFaceUpdate ==
    /\ pc = "grab"
    /\ COUNTER' = NoFaceCounter(COUNTER)
    /\ status_text' = "Status: Awake"
    /\ face' = FALSE
    /\ transition' = "None"
    /\ alarm_plays' = 0
    /\ log_appended' = <<>>
    /\ armed' = ArmedAfter(armed, COUNTER', args_frames)
    /\ pc' = "key"
    /\ UNCHANGED <<argsVars, ALARM_ON, ear_history, smoothed_ear, ear, key, call>>

\* a frame on which no face is found
NoFaceFrame == NoFaceUpdate /\ UNCHANGED recov

\* vs.read() fails: the loop ends before anything is updated
GrabFail ==
    /\ pc = "grab"
    /\ pc' = "stopped"
    /\ transition' = "None"
    /\ alarm_plays' = 0
    /\ log_appended' = <<>>
    /\ UNCHANGED <<argsVars, COUNTER, ALARM_ON, ear_history,
                   smoothed_ear, status_text, face, ear, key, armed, call, recov>>

\* 'q': leave the loop
KeyQuit ==
    /\ pc = "key"
    /\ key' = "q"
    /\ pc' = "stopped"
    /\ transition' = "None"
    /\ alarm_plays' = 0
    /\ log_appended' = <<>>
    /\ UNCHANGED <<argsVars, COUNTER, ALARM_ON, ear_history,
                   smoothed_ear, status_text, face, ear, armed, call, recov>>

\* variant: a reset with the alarm on announces TurnedOff
KeyResetAnnounced ==
    /\ pc = "key"
    /\ key' = "r"
    /\ LET s == ResetState(DetState)
       IN  /\ COUNTER' = s.COUNTER
           /\ ALARM_ON' = s.ALARM_ON
           /\ ear_history' = s.ear_history
           /\ armed' = ArmedAfter(armed, s.COUNTER, args_frames)
    /\ transition' = IF ALARM_ON THEN "TurnedOff" ELSE "None"
    /\ alarm_plays' = 0
    /\ log_appended' = <<>>
    /\ pc' = "grab"
    /\ UNCHANGED <<argsVars, smoothed_ear, status_text, face, ear, call, recov>>

\* the effect of 'r'
KeyResetUpdate ==
    /\ pc = "key"
    /\ key' = "r"
    /\ LET s == ResetState(DetState)
       IN  /\ COUNTER' = s.COUNTER
           /\ ALARM_ON' = s.ALARM_ON
           /\ ear_history' = s.ear_history
           /\ armed' = ArmedAfter(armed, s.COUNTER, args_frames)
    /\ transition' = "None"
    /\ alarm_plays' = 0
    /\ log_appended' = <<>>
    /\ pc' = "grab"
    /\ UNCHANGED <<argsVars, smoothed_ear, status_text, face, ear, call>>

\* 'r': reset the counters
KeyReset == KeyResetUpdate /\ UNCHANGED recov

\* no key, 'd', or any other key: nothing of the detection state changes
KeyOther ==
    /\ pc = "key"
    /\ key' = "none"
    /\ transition' = "None"
    /\ alarm_plays' = 0
    /\ log_appended' = <<>>
    /\ pc' = "grab"
    /\ UNCHANGED <<argsVars, COUNTER, ALARM_ON, ear_history,
                   smoothed_ear, status_text, face, ear, armed, call, recov>>

Next ==
    \/ \E e \in EarValues : FaceFrame(e)
    \/ NoFaceFrame
    \/ GrabFail
    \/ KeyQuit
    \/ KeyReset
    \/ KeyOther

Spec == Init /\ [][Next]_vars

----------------------------------------------------------------------------
(* The end-to-end scenario: config.py's threshold and frame count, a run of   *)
(* closed-eyes frames with combined EAR 0.10, then one frame with EAR 0.40.   *)
(* recov.n counts the frames fed.                                             *)

\* config.EYE_AR_THRESHOLD, in units of 0.01
ScenarioThreshold == 22

\* config.EYE_AR_CONSEC_FRAMES
ScenarioFrames == 25

\* length of the closed-eyes run
ClosedRun == 30

InitScenario == InitWith(ScenarioThreshold, ScenarioFrames, FALSE, FALSE)

ScenarioClosedFrame ==
    /\ recov.n < ClosedRun
    /\ FaceUpdate(10)
    /\ recov' = [recov EXCEPT !.n = @ + 1]

ScenarioOpenFrame ==
    /\ recov.n = ClosedRun
    /\ FaceUpdate(40)
    /\ recov' = [recov EXCEPT !.n = @ + 1]

NextScenario ==
    \/ ScenarioClosedFrame
    \/ ScenarioOpenFrame
    \/ GrabFail
    \/ KeyQuit
    \/ KeyOther

SpecScenario == InitScenario /\ [][NextScenario]_vars

----------------------------------------------------------------------------
(* The detector under every combination of --silent and --log *)

AlertThreshold == 22

InitAlert ==
    \E n \in 1..MaxFrames, silent \in BOOLEAN, log \in BOOLEAN :
        InitWith(AlertThreshold, n, silent, log)

SpecAlert == InitAlert /\ [][Next]_vars

(* Recovery: from a state with the alarm on, every later frame shows a face  *)
(* with combined EAR above threshold + margin.  recov.c is the counter at    *)
(* the start of the recovery and recov.n the recovery frames processed.      *)

\* the default of --ear
ClearThreshold == 17

\* EARs fed before the recovery starts
ClearEars == {0, 40}

\* EARs above threshold + margin
HighEars == {args_ear + Margin + 1, 40}

\* recovery frames are followed this far past the counter at its start
MaxRecovery == 10

InitClear == \E n \in 1..MaxFrames : InitWith(ClearThreshold, n, FALSE, FALSE)

StartRecovery ==
    /\ pc = "grab"
    /\ ~recov.on
    /\ ALARM_ON
    /\ recov' = [on |-> TRUE, c |-> COUNTER, n |-> 0]
    /\ UNCHANGED <<argsVars, COUNTER, ALARM_ON, ear_history, smoothed_ear,
                   status_text, face, ear, key, armed, call, transition,
                   alarm_plays, log_appended, pc>>

RecoveryFrame(e) ==
    /\ recov.on
    /\ ALARM_ON
    /\ recov.n < recov.c + MaxRecovery
    /\ e > args_ear + Margin
    /\ FaceUpdate(e)
    /\ recov' = [recov EXCEPT !.n = @ + 1]

NextClear ==
    \/ \E e \in ClearEars : ~recov.on /\ FaceFrame(e)
    \/ ~recov.on /\ NoFaceFrame
    \/ ~recov.on /\ KeyReset
    \/ KeyOther
    \/ StartRecovery
    \/ \E e \in HighEars : RecoveryFrame(e)

SpecClear == InitClear /\ [][NextClear]_vars

(* Dropout: from any state, every later frame shows no face.  recov.c is    *)
(* the counter at the start of the dropout and recov.n the no-face frames    *)
(* processed since.                                                          *)

\* no-face frames are followed this far past the counter at the start
MaxDropout == 2

StartDropout ==
    /\ pc = "grab"
    /\ ~recov.on
    /\ recov' = [on |-> TRUE, c |-> COUNTER, n |-> 0]
    /\ UNCHANGED <<argsVars, COUNTER, ALARM_ON, ear_history, smoothed_ear,
                   status_text, face, ear, key, armed, call, transition,
                   alarm_plays, log_appended, pc>>

DropoutFrame ==
    /\ recov.on
    /\ recov.n < recov.c + MaxDropout
    /\ NoFaceUpdate
    /\ recov' = [recov EXCEPT !.n = @ + 1]

NextDropout ==
    \/ \E e \in ClearEars : ~recov.on /\ FaceFrame(e)
    \/ ~recov.on /\ NoFaceFrame
    \/ ~recov.on /\ KeyReset
    \/ KeyOther
    \/ StartDropout
    \/ DropoutFrame

SpecDropout == InitClear /\ [][NextDropout]_vars

----------------------------------------------------------------------------
(* The estimators, as pure functions over exact fractions [num, den].        *)
(* Landmark coordinates are in units of 0.1 of the normalised frame; a        *)
(* fraction with den = 0 stands for a division by zero.                       *)

\* everything but the estimator call
loopVars == <<argsVars, COUNTER, ALARM_ON, ear_history, smoothed_ear, status_text,
              face, transition, key, pc, armed, ear, alarm_plays, log_appended,
              recov>>

\* the literal 0.0
Zero == [num |-> 0, den |-> 1]

Abs(n) == IF n < 0 THEN 0 - n ELSE n

FSub(a, b) == [num |-> a.num * b.den - b.num * a.den, den |-> a.den * b.den]

RECURSIVE GCD(_, _)
GCD(a, b) == IF b = 0 THEN a ELSE GCD(b, a % b)

\* the same rational in lowest terms (non-negative fractions)
Reduce(a) ==
    LET g == GCD(a.num, a.den)
    IN  IF g = 0 THEN a ELSE [num |-> a.num \div g, den |-> a.den \div g]

FAdd(a, b) ==
    Reduce([num |-> a.num * b.den + b.num * a.den, den |-> a.den * b.den])

FMul(a, b) == Reduce([num |-> a.num * b.num, den |-> a.den * b.den])

FAbs(a) == [num |-> Abs(a.num), den |-> Abs(a.den)]

\* a < b, for fractions with positive denominators
FLess(a, b) == a.num * b.den < b.num * a.den

FMin(a, b) == IF FLess(b, a) THEN b ELSE a

FMax(a, b) == IF FLess(a, b) THEN b ELSE a

RECURSIVE SeqMax(_)
SeqMax(s) ==
    IF Len(s) = 1 THEN s[1]
    ELSE LET m == SeqMax(Tail(s)) IN IF s[1] > m THEN s[1] ELSE m

RECURSIVE SeqMin(_)
SeqMin(s) ==
    IF Len(s) = 1 THEN s[1]
    ELSE LET m == SeqMin(Tail(s)) IN IF s[1] < m THEN s[1] ELSE m

\* [landmark.x for landmark in ...], [landmark.y for landmark in ...]
Xs(lms) == [i \in 1..Len(lms) |-> lms[i].x]
Ys(lms) == [i \in 1..Len(lms) |-> lms[i].y]

\* np.mean of a non-empty list
Mean(s) == [num |-> Sum(s), den |-> Len(s)]

\* the landmark count calculate_ear insists on
EyeLen == 16

\* the length of the upper-lid slice eye_landmarks[:8]
UpperLen == 8

\* variant: the abs() around the lid distance is missing
EyeHeightSigned(upper_y, lower_y) == FSub(upper_y, lower_y)

\* eye_height = abs(upper_y - lower_y)
EyeHeight(upper_y, lower_y) == FAbs(FSub(upper_y, lower_y))

\* eye_width = abs(max(x) - min(x))
EyeWidth(lms) == Abs(SeqMax(Xs(lms)) - SeqMin(Xs(lms)))

\* variant: the `if eye_width > 0` guard is missing
EarRatioUnguarded(eye_height, eye_width) ==
    [num |-> eye_height.num, den |-> eye_height.den * eye_width]

\* if eye_width > 0: return eye_height / eye_width; return 0.0
EarRatio(eye_height, eye_width) ==
    IF eye_width > 0
      THEN [num |-> eye_height.num, den |-> eye_height.den * eye_width]
      ELSE Zero

calculate_ear(eye_landmarks) ==
    IF Len(eye_landmarks) # EyeLen THEN Zero
    ELSE LET upper_landmarks == SubSeq(eye_landmarks, 1, UpperLen)
             lower_landmarks == SubSeq(eye_landmarks, UpperLen + 1, Len(eye_landmarks))
             upper_y == Mean(Ys(upper_landmarks))
             lower_y == Mean(Ys(lower_landmarks))
         IN  EarRatio(EyeHeight(upper_y, lower_y), EyeWidth(eye_landmarks))

(* Inputs of calculate_ear *)

\* longest landmark list tried
MaxLandmarks == 17

\* n landmarks: x is xa on the indices in A and xb elsewhere; y is yv on the
\* indices in B, else yu on the first eight and yl on the rest
Eye(n, xa, xb, A, yu, yl, yv, B) ==
    [i \in 1..n |->
        [x |-> IF i \in A THEN xa ELSE xb,
         y |-> IF i \in B THEN yv ELSE IF i <= 8 THEN yu ELSE yl]]

\* upper lid at y = 0.4, lower lid at y = 0.5, x from 0.0 to 0.2
ExampleEye == Eye(16, 0, 2, {1}, 4, 5, 4, {})

EyeInputs ==
    { Eye(n, xa, xb, A, yu, yl, yv, B) :
        n \in {0, 8, 15, 16, MaxLandmarks},
        xa \in {0, 2, 3}, xb \in {0, 2},
        A \in {{}, {1}, {3, 12}},
        yu \in {4, 5}, yl \in {4, 5},
        yv \in {3}, B \in {{}, {2}, {9, 10}} }

\* one application per behaviour: the function keeps no state between calls
CallCalculateEar ==
    /\ call = NoCall
    /\ \E lms \in EyeInputs :
          call' = [fn |-> "calculate_ear", arg |-> lms, ret |-> calculate_ear(lms)]
    /\ UNCHANGED loopVars

NextEar == CallCalculateEar

SpecEar == Init /\ [][NextEar]_vars

(* Counting closed-eyes frames: recov.c is the number of face frames with    *)
(* smoothed EAR below the threshold since startup or the last reset, and     *)
(* recov.n their number since startup.                                       *)

\* closed-eyes frames followed per run
MaxClosed == 4

CountedFaceFrame(e) ==
    /\ WouldClose(e) => recov.n < MaxClosed
    /\ recov' = IF WouldClose(e)
                  THEN [recov EXCEPT !.c = @ + 1, !.n = @ + 1]
                  ELSE recov
    /\ FaceUpdate(e)

CountedReset ==
    /\ KeyResetUpdate
    /\ recov' = [recov EXCEPT !.c = 0]

NextCount ==
    \/ \E e \in ClearEars : CountedFaceFrame(e)
    \/ NoFaceFrame
    \/ GrabFail
    \/ KeyQuit
    \/ CountedReset
    \/ KeyOther

SpecCount == InitClear /\ [][NextCount]_vars

(* The face-frame update statement by statement: pc runs                     *)
(* grab -> window -> detect -> alarm -> key, so that the states in which the *)
(* window, the counter and the alarm are only partly updated are states of   *)
(* the model.                                                                *)

\* variant: the key check follows the counter update directly
FollowsSkipAlarm(p) ==
    CASE p = "grab" -> "window"
      [] p = "window" -> "detect"
      [] p = "detect" -> "key"
      [] p = "alarm" -> "key"

\* the order of the statements of a face frame
Follows(p) ==
    CASE p = "grab" -> "window"
      [] p = "window" -> "detect"
      [] p = "detect" -> "alarm"
      [] p = "alarm" -> "key"

\* face_mesh.process finds a face; ear = (left_ear + right_ear) / 2.0
StepLandmarks(e) ==
    /\ pc = "grab"
    /\ WouldClose(e) => COUNTER < args_frames + MaxOver
    /\ face' = TRUE
    /\ ear' = e
    /\ status_text' = "Status: Awake"
    /\ transition' = "None"
    /\ alarm_plays' = 0
    /\ log_appended' = <<>>
    /\ pc' = Follows(pc)
    /\ UNCHANGED <<argsVars, COUNTER, ALARM_ON, ear_history, smoothed_ear,
                   key, armed, call, recov>>

\* ear_history.append(ear); pop(0) past five; smoothed_ear = sum / len
StepWindow ==
    /\ pc = "window"
    /\ ear_history' = PushEar(ear_history, ear)
    /\ smoothed_ear' = Smooth(ear_history')
    /\ pc' = Follows(pc)
    /\ UNCHANGED <<argsVars, COUNTER, ALARM_ON, status_text, face, ear,
                   transition, alarm_plays, log_appended, key, armed, call, recov>>

\* COUNTER += 1, or COUNTER = max(0, COUNTER - 1), or neither
StepCounter ==
    /\ pc = "detect"
    /\ COUNTER' = IF BelowThreshold(smoothed_ear, args_ear)
                     THEN ClosedCounter(COUNTER)
                  ELSE IF AboveMargin(smoothed_ear, args_ear)
                     THEN OpenCounter(COUNTER)
                  ELSE COUNTER
    /\ pc' = Follows(pc)
    /\ UNCHANGED <<argsVars, ALARM_ON, ear_history, smoothed_ear, status_text,
                   face, ear, transition, alarm_plays, log_appended, key,
                   armed, call, recov>>

\* the tests on the updated COUNTER: raise or clear ALARM_ON, alert, status
StepAlarm ==
    /\ pc = "alarm"
    /\ LET below == BelowThreshold(smoothed_ear, args_ear)
           above == AboveMargin(smoothed_ear, args_ear)
           fires == below /\ TurnedOnFires(COUNTER, ALARM_ON, args_frames)
       IN  /\ ALARM_ON' = IF below THEN ClosedAlarm(COUNTER, ALARM_ON, args_frames)
                          ELSE IF above THEN OpenAlarm(COUNTER, ALARM_ON)
                          ELSE ALARM_ON
           /\ transition' = IF fires
                               THEN "TurnedOn"
                            ELSE IF ~below /\ above /\ ALARM_ON
                                    /\ ~OpenAlarm(COUNTER, ALARM_ON)
                               THEN "TurnedOff"
                            ELSE "None"
           /\ alarm_plays' = PlayCalls(fires, args_silent)
           /\ log_appended' = LogLines(fires, args_log)
           /\ status_text' = StatusText(below, COUNTER, args_frames)
           /\ armed' = ArmedAfter(armed, COUNTER, args_frames)
    /\ pc' = Follows(pc)
    /\ UNCHANGED <<argsVars, COUNTER, ear_history, smoothed_ear, face, ear,
                   key, call, recov>>

NextSteps ==
    \/ \E e \in ClearEars : StepLandmarks(e)
    \/ StepWindow
    \/ StepCounter
    \/ StepAlarm
    \/ NoFaceFrame
    \/ GrabFail
    \/ KeyQuit
    \/ KeyReset
    \/ KeyOther

SpecSteps == InitClear /\ [][NextSteps]_vars

(* Estimator fault: every frame shows a face whose two eyes both come back  *)
(* from calculate_ear as 0.0.  recov.n counts the frames since startup.     *)

\* ear = (left_ear + right_ear) / 2.0, in units of 0.01
CombinedEar(left_ear, right_ear) ==
    LET m == FMul(FAdd(left_ear, right_ear), [num |-> 1, den |-> 2])
    IN  (m.num * 100) \div m.den

\* the combined EAR when neither eye yields its 16 landmarks
FaultEar == CombinedEar(calculate_ear(<<>>), calculate_ear(<<>>))

\* largest --frames tried
MaxRequired == 6

InitFault ==
    \E t \in Thresholds, n \in 1..MaxRequired : InitWith(t, n, FALSE, FALSE)

FaultFrame ==
    /\ recov.n < args_frames + MaxOver
    /\ FaceUpdate(FaultEar)
    /\ recov' = [recov EXCEPT !.n = @ + 1]

NextFault ==
    \/ FaultFrame
    \/ GrabFail
    \/ KeyQuit
    \/ KeyOther

SpecFault == InitFault /\ [][NextFault]_vars

(* utils.calculate_eye_aspect_ratio: the bounding-box estimator *)

F(n, d) == Reduce([num |-> n, den |-> d])

\* variant: the divisor is the bare width
BoxRatioBareWidth(h, w) == F(h, w)

\* ratio = h / max(w, 1)
BoxRatio(h, w) == F(h, IF w > 1 THEN w ELSE 1)

calculate_eye_aspect_ratio(eye1, eye2) ==
    LET ratio1 == BoxRatio(eye1.h, eye1.w)
        ratio2 == BoxRatio(eye2.h, eye2.w)
        area1 == eye1.w * eye1.h
        area2 == eye2.w * eye2.h
        avg_ratio == FMul(FAdd(ratio1, ratio2), F(1, 2))
        size_factor == FMin(F(3, 100), F(area1 + area2, 20000))
        ear_ == FAdd(FMul(F(27, 100), avg_ratio), size_factor)
    IN  FMin(FMax(ear_, F(15, 100)), F(35, 100))

\* largest box side tried, in pixels
MaxSide == 20

EyeBoxes ==
    [x : {0, 50}, y : {0}, w : {0, 1, 8, MaxSide}, h : {0, 2, 5, MaxSide}]

CallBoxEar ==
    /\ call = NoCall
    /\ \E eye1, eye2 \in EyeBoxes :
          call' = [fn |-> "calculate_eye_aspect_ratio", arg |-> <<eye1, eye2>>,
                   ret |-> calculate_eye_aspect_ratio(eye1, eye2)]
    /\ UNCHANGED loopVars

NextBox == CallBoxEar

SpecBox == Init /\ [][NextBox]_vars

----------------------------------------------------------------------------
(* Vocabulary of the properties, written out from the state alone *)

\* the step is one per-frame update
FrameStep == pc = "grab" /\ pc' = "key"

\* the smoothed EAR of the frame just processed is below the threshold
SBelow == smoothed_ear.num < args_ear * smoothed_ear.den

\* the smoothed EAR of the frame just processed is above threshold + margin
SAbove == smoothed_ear.num > (args_ear + Margin) * smoothed_ear.den

\* smoothed_ear is the arithmetic mean of the window
SIsMean == smoothed_ear.num = Sum(ear_history) /\ smoothed_ear.den = Len(ear_history)

----------------------------------------------------------------------------
\* C1 (alarm latch): TurnedOn fires only on a step that takes ALARM_ON from
\* false to true, never while ALARM_ON is already true, and ALARM_ON goes back
\* to false only on a step that fires TurnedOff; so between two TurnedOn
\* events there is always a TurnedOff event.
C1_AlarmLatch ==
    [][ /\ (transition' = "TurnedOn" => ~ALARM_ON /\ ALARM_ON')
        /\ (~ALARM_ON /\ ALARM_ON' => transition' = "TurnedOn")
        /\ (ALARM_ON /\ ~ALARM_ON' => transition' = "TurnedOff")
        /\ (transition' = "TurnedOff" => ALARM_ON /\ ~ALARM_ON') ]_vars

\* a closed-eyes frame past the trigger point: the alarm is on and nothing fired
C1_Witness ==
    /\ pc = "key" /\ face /\ SBelow
    /\ COUNTER > args_frames /\ ALARM_ON /\ transition = "None"

\* C2 (once per episode): on a frame update, TurnedOn fires exactly when the
\* counter, having been at 0 and not yet at required_frames since, reaches
\* required_frames.
C2_OncePerEpisode ==
    [][ FrameStep =>
          ((armed /\ COUNTER' >= args_frames) <=> transition' = "TurnedOn") ]_vars

\* C3 (state invariant, as claimed): at the end of a frame ALARM_ON is true
\* exactly when COUNTER >= required_frames.
C3_AwakeDrowsyOnly ==
    pc = "key" => (ALARM_ON <=> COUNTER >= args_frames)

\* C3 (amended): at the end of a frame, COUNTER >= required_frames implies
\* ALARM_ON; equivalently ALARM_ON false implies COUNTER in 0..required_frames-1.
C3_AlarmOnAtOrAboveRequired ==
    pc = "key" => /\ (COUNTER >= args_frames => ALARM_ON)
                  /\ (~ALARM_ON => COUNTER \in 0..(args_frames - 1))

\* the alarm is still on while the counter decays below required_frames
C3_Witness ==
    /\ pc = "key" /\ face /\ SAbove
    /\ ALARM_ON /\ COUNTER > 0 /\ COUNTER < args_frames

\* C4 (hysteresis): on a face-detected frame with smoothed EAR s (the mean of
\* the window): s < T adds 1 to the counter, s > T+M subtracts 1 floored at 0,
\* and T <= s <= T+M leaves it unchanged.
C4_Hysteresis ==
    [][ (FrameStep /\ face') =>
          /\ SIsMean'
          /\ (SBelow' => COUNTER' = COUNTER + 1)
          /\ (SAbove' => COUNTER' = (IF COUNTER > 0 THEN COUNTER - 1 ELSE 0))
          /\ (~SBelow' /\ ~SAbove' => COUNTER' = COUNTER) ]_vars

\* a frame whose smoothed EAR sits exactly on the threshold, counter held
C4_Witness ==
    /\ pc = "key" /\ face /\ COUNTER > 0
    /\ smoothed_ear.num = args_ear * smoothed_ear.den

\* C5 (counter bounds): the counter is never negative; a frame update moves it
\* by -1, 0 or +1; +1 only on a face frame with s < T; -1 only on a no-face
\* frame or a face frame with s > T+M.
C5_CounterBounds ==
    [][ /\ COUNTER >= 0 /\ COUNTER' >= 0
        /\ FrameStep =>
             /\ COUNTER' - COUNTER \in {-1, 0, 1}
             /\ (COUNTER' = COUNTER + 1 => face' /\ SBelow')
             /\ (COUNTER' = COUNTER - 1 => ~face' \/ SAbove') ]_vars

\* a no-face frame has taken one off a counter that had reached required_frames
C5_Witness ==
    pc = "key" /\ ~face /\ ALARM_ON /\ COUNTER > 0 /\ COUNTER < args_frames

\* C6 (alarm never cleared while counter > 0): a step that takes ALARM_ON from
\* true to false is a face-detected frame update with s > T+M, and leaves
\* COUNTER at exactly 0.
C6_ClearOnlyAtZero ==
    [][ (ALARM_ON /\ ~ALARM_ON') =>
          FrameStep /\ face' /\ SAbove' /\ COUNTER' = 0 ]_vars

\* the alarm has just been cleared by an open-eyes frame
C6_Witness ==
    /\ pc = "key" /\ face /\ SAbove
    /\ transition = "TurnedOff" /\ COUNTER = 0 /\ ~ALARM_ON

C8_OnOnlyByClosedFrame ==
    [][ /\ (FrameStep /\ face' /\ SBelow' /\ COUNTER' >= args_frames) => ALARM_ON'
        /\ (~ALARM_ON /\ ALARM_ON') =>
              FrameStep /\ face' /\ SBelow' /\ COUNTER' >= args_frames ]_vars

\* the frame on which the counter reached required_frames and raised the alarm
C8_Witness ==
    /\ pc = "key" /\ face /\ SBelow
    /\ transition = "TurnedOn" /\ ALARM_ON /\ COUNTER = args_frames

\* C9 (reset post-state): right after the reset, COUNTER = 0, the window is
\* empty and ALARM_ON is false.
C9_ResetPostState ==
    (pc = "grab" /\ key = "r") =>
        COUNTER = 0 /\ ear_history = <<>> /\ ~ALARM_ON

\* C10 (reset idempotence): from every reachable state, resetting twice gives
\* the same (COUNTER, ALARM_ON, ear_history) as resetting once.
C10_ResetIdempotent ==
    ResetState(ResetState(DetState)) = ResetState(DetState)

\* the reset has acted on a state with the alarm on
C10_Witness ==
    pc = "grab" /\ key = "r" /\ ALARM_ON /\ DetState = ResetState(DetState)

\* C11 (reported status): at the end of every frame the status is Drowsy
\* exactly when ALARM_ON is true, also on no-face frames and on frames whose
\* smoothed EAR is at or above the threshold.
C11_StatusIsAlarm ==
    pc = "key" => (status_text = "Status: DROWSY!" <=> ALARM_ON)

\* C12 (no-face frame): a frame without a face sets COUNTER to
\* max(0, COUNTER - 1), leaves the window, the smoothed EAR and ALARM_ON as they
\* were, and fires no transition, alarm or log entry.
C12_NoFaceEffect ==
    [][ (FrameStep /\ ~face') =>
          /\ COUNTER' = (IF COUNTER >= 1 THEN COUNTER - 1 ELSE 0)
          /\ UNCHANGED <<ear_history, smoothed_ear, ear, ALARM_ON>>
          /\ transition' = "None"
          /\ alarm_plays' = 0 /\ log_appended' = <<>> ]_vars

\* a no-face frame at the floor: the counter stays 0, the window is kept
C12_Witness ==
    pc = "key" /\ ~face /\ COUNTER = 0 /\ Len(ear_history) = WindowSize

\* C13 (smoothing window): the window never holds more than 5 values; a
\* face-detected frame appends its combined EAR at the end, dropping the oldest
\* value first when 5 are held, so the window is the last min(n, 5) values in
\* arrival order and is non-empty when the mean is taken; no-face frames and
\* keys other than the reset leave it alone, and the reset empties it.
C13_SlidingWindow ==
    [][ /\ Len(ear_history) <= 5 /\ Len(ear_history') <= 5
        /\ (FrameStep /\ face') =>
              /\ ear_history' = (IF Len(ear_history) < 5
                                   THEN ear_history \o <<ear'>>
                                   ELSE SubSeq(ear_history, 2, 5) \o <<ear'>>)
              /\ Len(ear_history') >= 1
              /\ SIsMean'
        /\ (ear_history' # ear_history) =>
              \/ FrameStep /\ face'
              \/ pc = "key" /\ key' = "r" /\ ear_history' = <<>> ]_vars

\* the alarm is cleared on a frame whose full window no longer holds the
\* closed-eyes values that raised it: they have been evicted, oldest first
C13_Witness ==
    /\ pc = "key" /\ face /\ transition = "TurnedOff"
    /\ Len(ear_history) = 5 /\ ear_history[5] = ear
    /\ \A i \in 2..5 : ear_history[i] = 40

\* C14 (end-to-end scenario): with threshold 0.22 and required_frames 25, the
\* closed-eyes frames keep the alarm off through frame 24, the counter equals
\* the number of frames fed, TurnedOn fires on frame 25 and on no other frame,
\* the alarm stays on afterwards, and the single 0.40 frame moves the counter
\* by at most 1 and leaves the alarm on.
C14_Scenario ==
    /\ (recov.n <= 24 => ~ALARM_ON)
    /\ (recov.n >= 25 => ALARM_ON)
    /\ (recov.n <= ClosedRun => COUNTER = recov.n)
    /\ (transition = "TurnedOn" <=> (pc = "key" /\ recov.n = 25 /\ COUNTER = 25))
    /\ (recov.n = ClosedRun + 1 =>
           COUNTER \in {ClosedRun - 1, ClosedRun, ClosedRun + 1})

\* the 0.40 frame has been processed after the closed-eyes run
C14_Witness ==
    /\ pc = "key" /\ recov.n = ClosedRun + 1 /\ ear = 40
    /\ ALARM_ON /\ transition = "None"

RECURSIVE SumYRange(_, _, _)
SumYRange(lms, a, b) == IF a > b THEN 0 ELSE lms[a].y + SumYRange(lms, a + 1, b)

\* the widest horizontal distance between two landmarks
XSpread(lms) ==
    CHOOSE w \in 0..10 :
        /\ \E i, j \in 1..Len(lms) : lms[i].x - lms[j].x = w
        /\ \A i, j \in 1..Len(lms) : lms[i].x - lms[j].x <= w

\* C16 (EAR estimator): for 16 landmarks with max x > min x, calculate_ear
\* returns |mean y of the first 8 - mean y of the last 8| / (max x - min x),
\* which is never negative; the synthetic eye (upper 0.4, lower 0.5, x from
\* 0.0 to 0.2) gives 0.5.
C16_EarFormula ==
    (call.fn = "calculate_ear" /\ Len(call.arg) = 16 /\ XSpread(call.arg) > 0) =>
        /\ call.ret.den > 0 /\ call.ret.num >= 0
        /\ call.ret.num * 8 * XSpread(call.arg)
             = call.ret.den * (IF SumYRange(call.arg, 1, 8) >= SumYRange(call.arg, 9, 16)
                                 THEN SumYRange(call.arg, 1, 8) - SumYRange(call.arg, 9, 16)
                                 ELSE SumYRange(call.arg, 9, 16) - SumYRange(call.arg, 1, 8))
        /\ (call.arg = ExampleEye => 2 * call.ret.num = call.ret.den)

\* calculate_ear has been applied to the synthetic eye
C16_Witness ==
    call.fn = "calculate_ear" /\ call.arg = ExampleEye /\ call.ret.num > 0

\* C17 (degenerate inputs): calculate_ear returns 0.0, with no division by
\* zero, whenever the landmark count is not 16 and whenever all 16
\* x-coordinates are equal.
C17_EarDegenerate ==
    (/\ call.fn = "calculate_ear"
     /\ \/ Len(call.arg) # 16
        \/ \A i, j \in 1..Len(call.arg) : call.arg[i].x = call.arg[j].x) =>
        (call.ret.den # 0 /\ call.ret.num = 0)

\* 16 landmarks on one vertical line, lids apart
C17_Witness ==
    /\ call.fn = "calculate_ear" /\ Len(call.arg) = 16
    /\ \A i \in 1..16 : call.arg[i].x = 2
    /\ call.arg[1].y # call.arg[16].y
    /\ call.ret.num = 0

\* C18 (bounding-box estimator): for boxes with non-negative integer w and h,
\* w = 0 included, calculate_eye_aspect_ratio returns
\* clamp(0.27 * ((h1/max(w1,1) + h2/max(w2,1)) / 2)
\*       + min(0.03, (w1*h1 + w2*h2)/20000), 0.15, 0.35);
\* the result lies in [0.15, 0.35] and nothing is divided by zero.
\* Written over the common denominator 20000 * m1 * m2, m = max(w, 1), and
\* compared in lowest terms.
C18_BoxFormula ==
    call.fn = "calculate_eye_aspect_ratio" =>
        LET e1 == call.arg[1]
            e2 == call.arg[2]
            m1 == IF e1.w >= 1 THEN e1.w ELSE 1
            m2 == IF e2.w >= 1 THEN e2.w ELSE 1
            area == e1.w * e1.h + e2.w * e2.h
            raw == 2700 * (e1.h * m2 + e2.h * m1)
                     + (IF area < 600 THEN area ELSE 600) * m1 * m2
            lo == 3000 * m1 * m2
            hi == 7000 * m1 * m2
            clamped == IF raw < lo THEN lo ELSE IF raw > hi THEN hi ELSE raw
        IN  /\ call.ret.den > 0
            /\ call.ret = Reduce([num |-> clamped, den |-> 20000 * m1 * m2])
            /\ 15 * call.ret.den <= 100 * call.ret.num
            /\ 100 * call.ret.num <= 35 * call.ret.den

\* a zero-width box whose result is strictly inside the clamp range
C18_Witness ==
    /\ call.fn = "calculate_eye_aspect_ratio"
    /\ call.arg[1].w = 0
    /\ 15 * call.ret.den < 100 * call.ret.num
    /\ 100 * call.ret.num < 35 * call.ret.den

\* number of "<timestamp> - Drowsiness detected" lines among those a step appended
EventLines(lines) == Cardinality({i \in 1..Len(lines) : lines[i] = EventLine})

C20_ClearsWithinCPlus4 ==
    (recov.on /\ pc = "key" /\ recov.n >= recov.c + 4) => ~ALARM_ON

\* C20, amended: under the same condition the alarm is on until TurnedOff
\* fires, and TurnedOff fires within c + 8 frames: while the window still
\* holds up to four older values its mean may stay at or below the threshold,
\* so each of the first four frames may add one to the counter, and from the
\* fifth frame on every frame takes one off.
C20_ClearsWithinCPlus8 ==
    /\ (recov.on /\ pc = "key" /\ recov.n >= recov.c + 8) => ~ALARM_ON
    /\ (recov.on /\ pc = "key" /\ recov.n >= 1 /\ ~ALARM_ON) =>
           (transition = "TurnedOff" /\ COUNTER = 0)
    /\ (recov.on /\ recov.n >= 5 /\ ALARM_ON) =>
           COUNTER <= recov.c + 8 - recov.n

\* the slowest recovery: TurnedOff on frame c + 8 exactly
C20_Witness ==
    /\ recov.on /\ pc = "key" /\ recov.c >= 1
    /\ recov.n = recov.c + 8
    /\ transition = "TurnedOff"

\* C21 (no-face recovery): from a reachable state with counter = c, after c
\* consecutive no-face frames the counter is 0 and the alarm is off; a no-face
\* frame never takes more than 1 off the counter.  Stated for c >= 1, where
\* the no-face frames themselves bring the counter to 0.
C21_NoFaceRecovery ==
    /\ (recov.on /\ pc = "key" /\ recov.c >= 1 /\ recov.n >= recov.c) =>
           (COUNTER = 0 /\ ~ALARM_ON)
    /\ recov.on => COUNTER >= recov.c - recov.n

\* C22 (estimator fault): a face frame whose combined EAR is 0.0 is appended
\* to the window and evaluated like any other sample; from the initial state
\* with threshold > 0, required_frames consecutive such frames raise the
\* alarm, TurnedOn firing at frame required_frames.
C22_FaultRaisesAlarm ==
    /\ args_ear > 0
    /\ recov.n >= 1 =>
          /\ ear = 0
          /\ Len(ear_history) = (IF recov.n < 5 THEN recov.n ELSE 5)
          /\ \A i \in 1..Len(ear_history) : ear_history[i] = 0
          /\ smoothed_ear.num = 0 /\ smoothed_ear.den > 0
    /\ COUNTER = recov.n
    /\ ALARM_ON <=> recov.n >= args_frames
    /\ transition = "TurnedOn" <=> (pc = "key" /\ recov.n = args_frames)

\* the alarm has just been raised by the sixth faulty frame in a row
C22_Witness ==
    /\ pc = "key" /\ transition = "TurnedOn" /\ ALARM_ON
    /\ args_frames = 6 /\ recov.n = 6 /\ ear = 0

\* C23 (reset is silent): the reset step never plays the alarm, never appends
\* a log line, and produces neither TurnedOn nor TurnedOff.
C23_ResetSilent ==
    [][ (pc = "key" /\ key' = "r") =>
            /\ transition' = "None"
            /\ alarm_plays' = 0
            /\ log_appended' = <<>> ]_vars

\* a reset has just been taken with the alarm on, logging on and sound on
C23_Witness ==
    /\ pc = "grab" /\ key = "r" /\ ALARM_ON /\ COUNTER = 0
    /\ args_log /\ ~args_silent
    /\ transition = "None" /\ alarm_plays = 0 /\ log_appended = <<>>

\* C25 (implicit invariant): in every reachable state, counter = 0 implies
\* the alarm is off.
C25_ZeroCounterAlarmOff == COUNTER = 0 => ~ALARM_ON

\* C26 (implicit invariant): the counter never exceeds the number of face
\* frames with smoothed EAR below the threshold processed since startup or the
\* last reset, and the alarm can be on only if at least required_frames such
\* frames have been processed since startup.
C26_CounterWithinClosedFrames ==
    /\ COUNTER <= recov.c
    /\ ALARM_ON => recov.n >= args_frames

\* after a reset, closed-eyes frames have raised the counter again and an
\* open-eyes frame has taken one off, with the alarm on throughout
C26_Witness ==
    /\ ALARM_ON /\ COUNTER >= 1
    /\ COUNTER < recov.c /\ recov.c < recov.n

\* the loop ends by the 'q' key
QuitStep == pc # "stopped" /\ pc' = "stopped" /\ key' = "q"

\* the 'r' key is acted on
ResetStep == pc # "grab" /\ pc' = "grab" /\ key' = "r"

\* the loop ends by a failed frame grab
GrabFailStep == pc # "stopped" /\ pc' = "stopped" /\ key' # "q"

\* window, smoothed EAR, counter and alarm agree with a finished update of
\* the latest face frame
UpdateComplete ==
    face =>
        /\ ear_history # <<>>
        /\ ear_history[Len(ear_history)] = ear
        /\ SIsMean
        /\ (SBelow /\ COUNTER >= args_frames) => ALARM_ON
        /\ (SAbove /\ COUNTER = 0) => ~ALARM_ON

\* C24 (commands between frames): quit and reset are acted on only at the key
\* check, after the frame's update of (window, counter, alarm) has completed;
\* quit changes none of them; a failed grab ends the loop at the top of the
\* frame, before any of them is modified.
C24_CommandsBetweenFrames ==
    [][ /\ (QuitStep \/ ResetStep) => (pc = "key" /\ UpdateComplete)
        /\ QuitStep => UNCHANGED <<ear_history, smoothed_ear, COUNTER, ALARM_ON>>
        /\ GrabFailStep =>
              /\ pc = "grab"
              /\ UNCHANGED <<ear_history, smoothed_ear, COUNTER, ALARM_ON, ear, face>> ]_vars

\* a reset taken right after the frame that raised the alarm
C24_Witness ==
    /\ pc = "grab" /\ key = "r" /\ face /\ ear = 0
    /\ ALARM_ON /\ COUNTER = 0 /\ ear_history = <<>>
    /\ status_text = "Status: DROWSY!"

\* a state in the middle of an update: the counter has reached --frames and
\* the alarm is not yet raised
C24_MidUpdate ==
    pc = "alarm" /\ COUNTER >= args_frames /\ ~ALARM_ON /\ ~UpdateComplete

====
